---- MODULE Spec2Model ----
(***************************************************************************)
(* hive: allocation of assignments (task x asset x user), submission,      *)
(* and the consensus sweep that verifies assets, over an Elasticsearch     *)
(* store.  The store is near-real-time: a document written with Index is   *)
(* returned at once by GetSource (by id), but a Search sees it only after  *)
(* the next Refresh of the index.                                          *)
(***************************************************************************)
EXTENDS Integers, Sequences, FiniteSets, TLC

VARIABLES
    es,               \* the Elasticsearch index: documents by type and id, and the searchable snapshot
    ActiveProjectId,  \* Server.ActiveProjectId, set by every handler from the URL
    ret,              \* what the last completed operation returned
    nops,             \* number of operations run so far
    reqs,             \* requests in flight (CreateAssignment calls step by step)
    plan              \* the workload of the sweep specification: who acts next

vars == <<es, ActiveProjectId, ret, nops, reqs, plan>>

----------------------------------------------------------------------------
(* Bounds of the exploration *)

MaxOps == 4          \* operations per behaviour
MaxTotal == 2        \* largest CompletionCriteria.Total an import draws
MaxMatching == 2     \* largest CompletionCriteria.Matching an import draws
MaxSweepUsers == 11  \* users that finished one asset, in the sweep specification
MaxSweepTasks == 11  \* tasks of the project, in the sweep specification
MaxPermute == 3      \* hit lists up to this length are returned in every order
MaxSweeps == 2       \* sweeps per behaviour, in the sweep specification
MaxFavOps == 4       \* operations per behaviour, in the favorites specification
MaxConcOps == 4      \* whole requests served while a favorite request is in flight
MaxLateOps == 6      \* whole requests of two workers and the sweeps between them
MaxPayloads == 4     \* answer payloads folded into one list of trackers
MaxIdLen == 4        \* characters of a project, task, asset or user identifier

(* Program constants *)

DefaultSearchSize == 10   \* hits of a search whose body gives no "size"
FindTasksSize == 10       \* Params.Size the callers of FindTasks pass

Project == "p1"
Assets == {"a1", "a2"}
Users == {"u1", "u2"}
NumTasks == 2                           \* tasks of the imported project

Null == "null"                          \* JSON null / Go nil
Answers == {"usable", "unusable"}       \* SubmittedData payloads, e.g. {"category": "usable"}
Values == Answers \cup {Null}
States == {"unfinished", "skipped", "finished", "verified"}
CountKeys == {"Favorites", "Assignments", "finished", "skipped", "unfinished", "verified"}
EmptyRule == "{}"

----------------------------------------------------------------------------
(* Generic helpers *)

Min(a, b) == IF a < b THEN a ELSE b

Range(s) == {s[i] : i \in DOMAIN s}

Take(s, n) == SubSeq(s, 1, Min(n, Len(s)))

Reverse(s) == [i \in DOMAIN s |-> s[Len(s) + 1 - i]]

\* every sequence that lists each element of S exactly once
Perms(S) ==
    {s \in [1..Cardinality(S) -> S] : \A i, j \in DOMAIN s : s[i] = s[j] => i = j}

\* one fixed enumeration of S
RECURSIVE SetToSeq(_)
SetToSeq(S) ==
    IF S = {} THEN <<>>
    ELSE LET x == CHOOSE y \in S : TRUE IN <<x>> \o SetToSeq(S \ {x})

EmptyMap == [k \in {} |-> Null]

\* Go map read: the zero value when the key is absent
CountOf(c, k) == IF k \in DOMAIN c THEN c[k] ELSE 0
Get(m, k) == IF k \in DOMAIN m THEN m[k] ELSE Null

\* Go map write  m[k] += d
Inc(c, k, d) == (k :> (CountOf(c, k) + d)) @@ c
Put(m, k, v) == (k :> v) @@ m

----------------------------------------------------------------------------
(* Identifiers *)

\* task names in ascending order of name: "t01" < "t02" < ...
TaskName(i) == "t" \o (IF i < 10 THEN "0" ELSE "") \o ToString(i)
NameIndex(n) == CHOOSE i \in 1..(MaxSweepTasks + 1) : TaskName(i) = n

\* task.Id = strings.Join({ActiveProjectId, strings.ToLower(task.Name)}, "-")
TaskId(p, name) == p \o "-" \o name

\* strings.Join({project, taskId, assetId, userId}, "HIVE")
AssignmentId(p, t, a, u) == <<p, t, a, u>>
\* strings.Split(hit.Id, "HIVE")
IdParts(id) == id

----------------------------------------------------------------------------
(* The store: Elasticsearch documents and the searchable snapshot *)

\* EsConn.Index(index, type, id, doc): visible to GetSource at once
Index(store, type, id, doc) == [store EXCEPT ![type] = Put(@, id, doc)]

\* EsConn.Refresh(index): every write becomes visible to Search
RefreshIndex(store) ==
    [store EXCEPT !.idx = [assets |-> store.assets,
                           assignments |-> store.assignments,
                           tasks |-> store.tasks,
                           users |-> store.users]]

\* the hits a search returns for the matching ids S with "size": any S' of that size
Truncations(S, size) ==
    {H \in SUBSET S : Cardinality(H) = Min(size, Cardinality(S))}

\* the orders in which the store may return the hits H
HitOrders(H) ==
    IF Cardinality(H) <= MaxPermute THEN Perms(H)
    ELSE {SetToSeq(H), Reverse(SetToSeq(H))}

----------------------------------------------------------------------------
(* Documents *)

\* importAssets: the Counts every imported asset starts with
ZeroCounts == [Favorites |-> 0, Assignments |-> 0, finished |-> 0, skipped |-> 0, unfinished |-> 0]

\* CreateUserFromMissingCookieValue, CreateUser: the user record they store; Favorites maps
\* the ids of the favorited assets to their records
NewUser(p, userId) ==
    [Id |-> userId, Project |-> p, ExternalId |-> "", Favorites |-> EmptyMap,
     Counts |-> [Favorites |-> 0, Assignments |-> 0, VerifiedAssets |-> 0]]

\* importTasks: a task of project p named name
NewTask(p, name, state, criteria, total, matching) ==
    [Id |-> TaskId(p, name), Project |-> p, Name |-> name, CurrentState |-> state,
     AssignmentCriteria |-> criteria,
     CompletionCriteria |-> [Total |-> total, Matching |-> matching]]

NoId == <<>>

\* what an operation did and returned; next is the assignment a submit handed out after
\* it, action the Action of a favoriteResponse, state the State a submit posted, failed
\* the assets on which a store call of the operation failed
Ret(op, ok, task, user, id, created, assets) ==
    [op |-> op, ok |-> ok, task |-> task, user |-> user, id |-> id,
     created |-> created, assets |-> assets, next |-> NoId, action |-> "",
     state |-> "", failed |-> {}]

----------------------------------------------------------------------------
(* Lookups *)

\* the task records of a set, in ascending order of Name
RECURSIVE SortByName(_)
SortByName(S) ==
    IF S = {} THEN <<>>
    ELSE LET t == CHOOSE x \in S : \A y \in S : NameIndex(x.Name) <= NameIndex(y.Name)
         IN <<t>> \o SortByName(S \ {t})

\* FindTasks(Params{From 0, Size 10, SortBy Name, asc}): a search, so it reads the snapshot
FindTasks(store, p) ==
    Take(SortByName({store.idx.tasks[id] : id \in {i \in DOMAIN store.idx.tasks :
                                                   store.idx.tasks[i].Project = p}}),
         FindTasksSize)

\* FindUser: GetSource, then every task of FindTasks gets a zero count if it has none
RECURSIVE FillTaskCounts(_, _)
FillTaskCounts(counts, tasks) ==
    IF tasks = <<>> THEN counts
    ELSE FillTaskCounts(IF Head(tasks).Id \in DOMAIN counts THEN counts
                        ELSE Put(counts, Head(tasks).Id, 0),
                        Tail(tasks))

FindUser(store, p, userId) ==
    [store.users[userId] EXCEPT !.Counts = FillTaskCounts(@, FindTasks(store, p))]

\* CreateAssignment / CreateAssetAssignment: FindUser, else CreateUserFromMissingCookieValue
EnsureUser(store, p, userId) ==
    IF userId \in DOMAIN store.users THEN store
    ELSE Index(store, "users", userId, NewUser(p, userId))

----------------------------------------------------------------------------
(* FindAssignmentAsset: an eligible asset for the task and user *)

\* a rule that is a JSON array, not an object
NotAMapping == "[]"

\* rule := ruleI.(map[string]interface{}) succeeds
IsMapping(rule) == rule # NotAMapping

\* the assertion succeeds on every rule of the task
RulesAreMappings(task) ==
    \A taskName \in DOMAIN task.AssignmentCriteria : IsMapping(task.AssignmentCriteria[taskName])

\* one entry of task.AssignmentCriteria.SubmittedData against an asset of the snapshot
RuleHolds(task, taskName, rule, asset) ==
    IF rule = EmptyRule
    THEN Get(asset.SubmittedData, task.Name) = Null      \* "missing" filter on SubmittedData.<task.Name>
    ELSE Get(asset.SubmittedData, taskName) = rule       \* "match" on every field of the rule

Eligible(task, asset) ==
    \A taskName \in DOMAIN task.AssignmentCriteria :
        RuleHolds(task, taskName, task.AssignmentCriteria[taskName], asset)

\* the assignments of the snapshot for this task, user and project
AssignedTo(store, p, task, user) ==
    {id \in DOMAIN store.idx.assignments :
        LET d == store.idx.assignments[id]
        IN d.Task = task.Id /\ d.User = user.Id /\ d.Project = p}

\* the assets FindAssignmentAsset may return; {} is "No assets found"
FindAssignmentAsset(store, p, task, user) ==
    UNION {
        LET assetIds == {IdParts(id)[3] : id \in H}
        IN {store.idx.assets[a] : a \in {b \in DOMAIN store.idx.assets :
                /\ Eligible(task, store.idx.assets[b])
                /\ store.idx.assets[b].Project = p
                /\ store.idx.assets[b].Id \notin assetIds}}
        : H \in Truncations(AssignedTo(store, p, task, user),
                            CountOf(user.Counts, "Assignments"))}

----------------------------------------------------------------------------
(* CreateAssignment and CreateAssetAssignment *)

\* "Set counts on asset", then Counts["Assignments"] += 1 and Counts["unfinished"] += 1
AddAssignmentCounts(asset) ==
    LET c == IF DOMAIN asset.Counts = {} THEN ZeroCounts ELSE asset.Counts
    IN [asset EXCEPT !.Counts = Inc(Inc(c, "Assignments", 1), "unfinished", 1)]

\* an assignment whose id leaves out the user
AnonymousAssignment(p, taskId, userId, asset) ==
    [Id |-> AssignmentId(p, taskId, asset.Id, ""), User |-> userId, Project |-> p,
     Task |-> taskId, Asset |-> asset, State |-> "unfinished", SubmittedData |-> Null]

NewAssignment(p, taskId, userId, asset) ==
    [Id |-> AssignmentId(p, taskId, asset.Id, userId), User |-> userId, Project |-> p,
     Task |-> taskId, Asset |-> asset, State |-> "unfinished", SubmittedData |-> Null]

\* the search of CreateAssignment for an unfinished assignment of the user on the task
UnfinishedOf(store, p, taskId, userId) ==
    {id \in DOMAIN store.idx.assignments :
        LET d == store.idx.assignments[id]
        IN d.Project = p /\ d.Task = taskId /\ d.User = userId /\ d.State = "unfinished"}

\* CreateAssignment up to the choice of the asset: what it read and decided
CreateAssignmentRead(store, p, taskId, userId) ==
    LET s1 == EnsureUser(store, p, userId)
    IN  IF taskId \notin DOMAIN s1.tasks
        THEN {[es |-> s1, kind |-> "error", id |-> NoId, asset |-> Null]}
        ELSE IF s1.tasks[taskId].CurrentState # "available"
        THEN {[es |-> s1, kind |-> "error", id |-> NoId, asset |-> Null]}
        ELSE IF UnfinishedOf(s1, p, taskId, userId) # {}
        THEN {[es |-> s1, kind |-> "found", id |-> id, asset |-> Null]
                 : id \in UnfinishedOf(s1, p, taskId, userId)}
        ELSE IF ~RulesAreMappings(s1.tasks[taskId])      \* FindAssignmentAsset panics
        THEN {[es |-> s1, kind |-> "error", id |-> NoId, asset |-> Null]}
        ELSE LET found == FindAssignmentAsset(s1, p, s1.tasks[taskId], FindUser(s1, p, userId))
             IN IF found = {}
                THEN {[es |-> s1, kind |-> "error", id |-> NoId, asset |-> Null]}
                ELSE {[es |-> s1, kind |-> "picked", id |-> NoId, asset |-> AddAssignmentCounts(a)]
                         : a \in found}

\* EsConn.Index(s.Index, "assets", assignmentAsset.Id, nil, assignmentAsset)
WriteAsset(store, asset) == Index(store, "assets", asset.Id, asset)

\* EsConn.Index(s.Index, "assignments", assignment.Id, nil, assignment)
WriteAssignment(store, assignment) == Index(store, "assignments", assignment.Id, assignment)

\* CreateAssignment(taskId, userId), the whole call: the results it may have
CreateAssignment(store, p, taskId, userId) ==
    {IF r.kind = "picked"
     THEN LET a == NewAssignment(p, taskId, userId, r.asset)
          IN [es |-> WriteAssignment(WriteAsset(r.es, r.asset), a),
              ret |-> Ret("allocate", TRUE, taskId, userId, a.Id, TRUE, <<>>)]
     ELSE [es |-> r.es,
           ret |-> Ret("allocate", r.kind = "found", taskId, userId, r.id, FALSE, <<>>)]
       : r \in CreateAssignmentRead(store, p, taskId, userId)}

\* CreateAssetAssignment(taskId, userId, assetId), the whole call
CreateAssetAssignment(store, p, taskId, userId, assetId) ==
    LET s1 == EnsureUser(store, p, userId)
    IN  IF assetId \notin DOMAIN s1.assets
        THEN [es |-> s1, ret |-> Ret("assign", FALSE, taskId, userId, NoId, FALSE, <<>>)]
        ELSE LET asset == AddAssignmentCounts(s1.assets[assetId])
                 a == NewAssignment(p, taskId, userId, asset)
             IN [es |-> WriteAssignment(WriteAsset(s1, asset), a),
                 ret |-> Ret("assign", TRUE, taskId, userId, a.Id, TRUE, <<>>)]

----------------------------------------------------------------------------
(* UpdateAssignment: the submitted assignment is stored as posted *)

\* a submit that counts the new state and leaves Counts["unfinished"] as it was
CountState(c, state) == Inc(c, state, 1)

\* asset.Counts[assignment.State] += 1; asset.Counts["unfinished"] -= 1
MoveCount(c, state) == Inc(Inc(c, state, 1), "unfinished", -1)

UpdateAssignment(store, p, assignment) ==
    LET found == assignment.Asset.Id \in DOMAIN store.assets
        asset == LET a == store.assets[assignment.Asset.Id]
                     c == IF DOMAIN a.Counts = {}
                          THEN [Favorites |-> 0, Assignments |-> 1, finished |-> 0,
                                skipped |-> 0, unfinished |-> 1]
                          ELSE a.Counts
                 IN [a EXCEPT !.Counts = MoveCount(c, assignment.State)]
        s1 == IF found THEN WriteAsset(store, asset) ELSE store
        stored == IF found THEN [assignment EXCEPT !.Asset = asset] ELSE assignment
        s2 == RefreshIndex(WriteAssignment(s1, stored))
        user == FindUser(s2, p, assignment.User)
        s3 == IF assignment.State = "finished"
              THEN Index(s2, "users", user.Id,
                         [user EXCEPT !.Counts = Inc(Inc(@, "Assignments", 1), assignment.Task, 1)])
              ELSE s2
    IN [es |-> s3,
        ret |-> [Ret("submit", TRUE, assignment.Task, assignment.User, assignment.Id, FALSE, <<>>)
                    EXCEPT !.state = assignment.State]]

\* UserCreateAssignmentHandler: UpdateAssignment on the body, then CreateAssignment for the
\* task of the URL and the user of the cookie; the results it may have
UserCreateAssignmentHandler(store, p, taskId, userId, assignment) ==
    LET updated == UpdateAssignment(store, p, assignment)
    IN {[es |-> o.es,
         ret |-> [updated.ret EXCEPT !.ok = o.ret.ok, !.created = o.ret.created,
                                     !.next = o.ret.id]]
          : o \in CreateAssignment(updated.es, p, taskId, userId)}

----------------------------------------------------------------------------
(* Enabling and disabling a task *)

\* UpdateTaskState(taskId, state): FindTask, set CurrentState, Index, Refresh
UpdateTaskState(store, p, taskId, state) ==
    IF taskId \notin DOMAIN store.tasks
    THEN [es |-> store, ret |-> Ret(state, FALSE, taskId, "", NoId, FALSE, <<>>)]
    ELSE [es |-> RefreshIndex(Index(store, "tasks", taskId,
                                    [store.tasks[taskId] EXCEPT !.CurrentState = state])),
          ret |-> Ret(state, TRUE, taskId, "", NoId, FALSE, <<>>)]

\* GET /admin/projects/{project_id}/tasks/{task_id}/disable
DisableTaskHandler(store, p, taskId) ==
    [UpdateTaskState(store, p, TaskId(p, taskId), "waiting") EXCEPT !.ret.op = "disable"]

\* GET /admin/projects/{project_id}/tasks/{task_id}/enable
EnableTaskHandler(store, p, taskId) ==
    [UpdateTaskState(store, p, TaskId(p, taskId), "available") EXCEPT !.ret.op = "enable"]

\* CreateTask(requestBody): the posted task is given its Id, indexed, and the index refreshed
CreateTask(store, p, task) ==
    LET stored == [task EXCEPT !.Id = TaskId(p, task.Name)]
    IN RefreshIndex(Index(store, "tasks", stored.Id, stored))

\* POST /admin/projects/{project_id}/tasks
AdminCreateTaskHandler(store, p, task) ==
    [es |-> CreateTask(store, p, task),
     ret |-> Ret("createTask", TRUE, TaskId(p, task.Name), "", NoId, FALSE, <<>>)]

----------------------------------------------------------------------------
(* Users: favorites, and the lookup of a user by an external id *)

\* the id Elasticsearch generates for a record indexed without one: one never used
GeneratedId(i) == "g" \o ToString(i)
NewUserId(store) ==
    LET used == DOMAIN store.users \cup DOMAIN store.idx.users
    IN GeneratedId(CHOOSE i \in 1..(Cardinality(used) + 1) :
                      /\ GeneratedId(i) \notin used
                      /\ \A j \in 1..(i - 1) : GeneratedId(j) \in used)

\* CreateExternalUser(externalId): [es, user]
CreateExternalUser(store, p, externalId) ==
    LET user == [NewUser(p, NewUserId(store)) EXCEPT !.ExternalId = externalId]
    IN [es |-> Index(store, "users", user.Id, user), user |-> user]

\* FindUser(id) as a handler calls it with the value of the cookie or of the body:
\* "" creates a user (CreateUser), an unknown id gives nil (ok is FALSE); [es, ok, user]
FindOrCreateUser(store, p, id) ==
    IF id = ""
    THEN LET user == NewUser(p, NewUserId(store))
         IN [es |-> Index(store, "users", user.Id, user), ok |-> TRUE, user |-> user]
    ELSE IF id \notin DOMAIN store.users
    THEN [es |-> store, ok |-> FALSE, user |-> Null]
    ELSE [es |-> store, ok |-> TRUE, user |-> FindUser(store, p, id)]

\* a delete that removes nothing
KeepAll(m, k) == m

\* delete(user.Favorites, asset.Id)
Without(m, k) == [j \in DOMAIN m \ {k} |-> m[j]]

\* FavoriteHandler up to its writes: the asset and the user it is about to store
FavoriteRead(store, p, assetId, userId) ==
    IF assetId \notin DOMAIN store.assets
    THEN [es |-> store, ok |-> FALSE, asset |-> Null, user |-> Null, action |-> ""]
    ELSE LET found == FindOrCreateUser(store, p, userId)
             user == found.user
             c == IF DOMAIN store.assets[assetId].Counts = {} THEN ZeroCounts
                  ELSE store.assets[assetId].Counts
             isFavorite == assetId \in DOMAIN user.Favorites
             asset == [store.assets[assetId] EXCEPT !.Counts =
                          IF isFavorite
                          THEN IF CountOf(c, "Favorites") > 0 THEN Inc(c, "Favorites", -1) ELSE c
                          ELSE Inc(c, "Favorites", 1)]
             favorites == IF isFavorite THEN Without(user.Favorites, assetId)
                          ELSE Put(user.Favorites, assetId, asset)
         IN IF ~found.ok
            THEN [es |-> found.es, ok |-> FALSE, asset |-> Null, user |-> Null, action |-> ""]
            ELSE [es |-> found.es, ok |-> TRUE, asset |-> asset,
                  user |-> [user EXCEPT !.Favorites = favorites,
                                        !.Counts = Put(@, "Favorites",
                                                       Cardinality(DOMAIN favorites))],
                  action |-> IF isFavorite THEN "unfavorited" ELSE "favorited"]

\* what FavoriteHandler returns: the asset in assets, the Action in action
FavoriteRet(r, assetId, userId) ==
    [Ret("favorite", r.ok, "", IF r.ok THEN r.user.Id ELSE userId, NoId, FALSE, <<assetId>>)
        EXCEPT !.action = r.action]

\* EsConn.Index(s.Index, "users", user.Id, nil, user)
WriteUser(store, user) == Index(store, "users", user.Id, user)

\* FavoriteHandler(asset_id) for the user of the cookie, the whole call
FavoriteHandler(store, p, assetId, userId) ==
    LET r == FavoriteRead(store, p, assetId, userId)
    IN [es |-> IF r.ok THEN WriteUser(WriteAsset(r.es, r.asset), r.user) ELSE r.es,
        ret |-> FavoriteRet(r, assetId, userId)]

\* the users of the snapshot with this ExternalId in the project
ExternalUsers(store, p, externalId) ==
    {id \in DOMAIN store.idx.users :
        store.idx.users[id].ExternalId = externalId /\ store.idx.users[id].Project = p}

\* for key, count := range externalUser.Counts { user.Counts[key] += count }
RECURSIVE AddCounts(_, _, _)
AddCounts(counts, other, keys) ==
    IF keys = <<>> THEN counts
    ELSE AddCounts(Inc(counts, Head(keys), other[Head(keys)]), other, Tail(keys))

\* for key, value := range externalUser.Favorites { user.Favorites[key] = value }
MergeFavorites(favorites, other) ==
    [k \in DOMAIN favorites \cup DOMAIN other |->
        IF k \in DOMAIN other THEN other[k] ELSE favorites[k]]

\* EsConn.Delete(s.Index, "users", id, args)
DeleteUser(store, id) == [store EXCEPT !.users = Without(@, id)]

\* the user record has no VerifiedAssets in any state: nothing in the program fills it
VerifiedAssetsLen == 0

\* ExternalUserHandler for the body {Id, ExternalId}, with or without /connect: the
\* results it may have, one for each hit the search may return first
ExternalUserHandler(store, p, id, externalId, connect) ==
    LET hits == ExternalUsers(store, p, externalId)
        total == Cardinality(hits)
        resultCount == IF total # 0 /\ externalId = "0" THEN 0 ELSE total
        out(es2, ok, userId) ==
            [es |-> es2, ret |-> Ret(IF connect THEN "connect" ELSE "external", ok, "",
                                     userId, NoId, FALSE, <<>>)]
    IN  IF resultCount = 0
        THEN IF id = ""
             THEN LET made == CreateExternalUser(store, p, externalId)
                  IN {out(made.es, TRUE, made.user.Id)}
             ELSE LET found == FindOrCreateUser(store, p, id)
                  IN IF found.ok
                     THEN {out(WriteUser(found.es, [found.user EXCEPT !.ExternalId = externalId]),
                               TRUE, id)}
                     \* *user = CreateExternalUser(...) with user nil: the record is stored,
                     \* then the handler panics
                     ELSE {out(CreateExternalUser(store, p, externalId).es, FALSE, id)}
        ELSE IF resultCount > 1
        THEN {out(store, FALSE, id)}
        ELSE {LET externalUser == store.idx.users[h]
              IN IF ~connect
                 THEN out(store, TRUE, externalUser.Id)
                 ELSE LET found == FindOrCreateUser(store, p, id)
                          user == found.user
                          merged == [user EXCEPT
                              !.ExternalId = externalId,
                              !.Counts = Put(AddCounts(@, externalUser.Counts,
                                                       SetToSeq(DOMAIN externalUser.Counts)),
                                             "VerifiedAssets", VerifiedAssetsLen),
                              !.Favorites = MergeFavorites(@, externalUser.Favorites)]
                      IN IF ~found.ok THEN out(found.es, TRUE, id)
                         ELSE out(DeleteUser(WriteUser(found.es, merged), externalUser.Id),
                                  TRUE, user.Id)
                : h \in hits}

----------------------------------------------------------------------------
(* CompleteTask: the consensus sweep *)

\* reflect.DeepEqual on two SubmittedData values
DeepEqual(v, w) == v = w

\* a fold step that never looks for the payload among the trackers
appendSubmittedData(sdt, item) == Append(sdt, [Value |-> item, Count |-> 1])

collateSubmittedData(sdt, item) ==
    LET foundIt == \E i \in DOMAIN sdt : DeepEqual(sdt[i].Value, item)
        counted == [i \in DOMAIN sdt |->
                       IF DeepEqual(sdt[i].Value, item)
                       THEN [sdt[i] EXCEPT !.Count = @ + 1] ELSE sdt[i]]
    IN IF foundIt THEN counted ELSE Append(counted, [Value |-> item, Count |-> 1])

\* the loop of CompleteTask over the hits: sdTrackers
RECURSIVE Collate(_, _)
Collate(sdt, items) ==
    IF items = <<>> THEN sdt
    ELSE Collate(collateSubmittedData(sdt, Head(items)), Tail(items))

\* CompleteAsset(assetId, task, submittedData): [ok, es]
CompleteAsset(store, p, assetId, task, submittedData) ==
    IF assetId \notin DOMAIN store.assets
    THEN [ok |-> FALSE, es |-> store]
    ELSE LET asset == store.assets[assetId]
             sd == Put(asset.SubmittedData, task.Name, submittedData)
             tasks == FindTasks(store, p)
             \* the entry just assigned holds a map value, which is never == nil, even
             \* when the map itself is nil; every other entry is nil when it is JSON null
             assetVerified == \A i \in DOMAIN tasks :
                                  tasks[i].Name = task.Name \/ Get(sd, tasks[i].Name) # Null
         IN [ok |-> TRUE,
             es |-> WriteAsset(store, [asset EXCEPT !.SubmittedData = sd,
                                                    !.Verified = assetVerified])]

\* every assignment of the hits is stored again with State "verified"
RECURSIVE VerifyAll(_, _)
VerifyAll(store, matchingAssignments) ==
    IF matchingAssignments = <<>> THEN store
    ELSE VerifyAll(WriteAssignment(store, [Head(matchingAssignments) EXCEPT !.State = "verified"]),
                   Tail(matchingAssignments))

\* the loop over sdTrackers for one bucket: acc is [es, assets]
RECURSIVE CompleteTrackers(_, _, _, _, _, _)
CompleteTrackers(acc, p, task, assetId, trackers, matchingAssignments) ==
    IF trackers = <<>> THEN acc
    ELSE LET tracker == Head(trackers)
             done == CompleteAsset(acc.es, p, assetId, task, tracker.Value)
             next == IF tracker.Count >= task.CompletionCriteria.Matching /\ done.ok
                     THEN [es |-> VerifyAll(done.es, matchingAssignments),
                           assets |-> Append(acc.assets, assetId)]
                     ELSE acc
         IN CompleteTrackers(next, p, task, assetId, Tail(trackers), matchingAssignments)

\* the finished assignments of the snapshot for the task on one asset
FinishedOn(store, p, taskName, assetId) ==
    {id \in DOMAIN store.idx.assignments :
        LET d == store.idx.assignments[id]
        IN d.Task = taskName /\ d.Asset.Id = assetId /\ d.Project = p /\ d.State = "finished"}

\* the buckets of the aggregation: assets with at least Total finished assignments
Buckets(store, p, task) ==
    {a \in {store.idx.assignments[id].Asset.Id : id \in DOMAIN store.idx.assignments} :
        Cardinality(FinishedOn(store, p, task.Id, a)) >= task.CompletionCriteria.Total}

\* the body of the loop over the buckets, for one bucket: the results it may have
CompleteBucket(acc, p, task, assetId) ==
    IF Cardinality(FinishedOn(acc.es, p, task.Id, assetId)) < task.CompletionCriteria.Matching
    THEN {acc}
    ELSE UNION {
            {LET matchingAssignments == [i \in DOMAIN hits |-> acc.es.idx.assignments[hits[i]]]
                 sdTrackers == Collate(<<>>, [i \in DOMAIN hits |->
                                                 matchingAssignments[i].SubmittedData])
             IN CompleteTrackers(acc, p, task, assetId, sdTrackers, matchingAssignments)
               : hits \in HitOrders(H)}
            : H \in Truncations(FinishedOn(acc.es, p, task.Id, assetId), DefaultSearchSize)}

RECURSIVE CompleteBuckets(_, _, _, _)
CompleteBuckets(accs, p, task, buckets) ==
    IF buckets = <<>> THEN accs
    ELSE CompleteBuckets(UNION {CompleteBucket(acc, p, task, Head(buckets)) : acc \in accs},
                         p, task, Tail(buckets))

\* CompleteTask(taskId), the whole call: the results it may have
CompleteTask(store, p, taskId) ==
    LET taskName == TaskId(p, taskId)
    IN  IF taskName \notin DOMAIN store.tasks
        THEN {[es |-> store, ret |-> Ret("sweep", FALSE, taskName, "", NoId, FALSE, <<>>)]}
        ELSE LET task == store.tasks[taskName]
             IN {[es |-> RefreshIndex(acc.es),
                  ret |-> Ret("sweep", TRUE, taskName, "", NoId, FALSE, acc.assets)]
                   : acc \in CompleteBuckets({[es |-> store, assets |-> <<>>]}, p, task,
                                             SetToSeq(Buckets(store, p, task)))}

----------------------------------------------------------------------------
(* Store calls that fail: the Index of a new assignment, and the calls of a sweep on *)
(* one asset                                                                         *)

\* CreateAssignment when the Index of the assignment returns an error: the asset is
\* already indexed with its raised Counts, and the call returns nil, err
CreateAssignmentFailing(store, p, taskId, userId) ==
    {IF r.kind = "picked"
     THEN [es |-> WriteAsset(r.es, r.asset),
           ret |-> [Ret("allocate", FALSE, taskId, userId, NoId, FALSE, <<>>)
                       EXCEPT !.failed = {r.asset.Id}]]
     ELSE [es |-> r.es,
           ret |-> Ret("allocate", r.kind = "found", taskId, userId, r.id, FALSE, <<>>)]
       : r \in CreateAssignmentRead(store, p, taskId, userId)}

\* CreateAssetAssignment when the Index of the assignment returns an error
CreateAssetAssignmentFailing(store, p, taskId, userId, assetId) ==
    LET s1 == EnsureUser(store, p, userId)
    IN  IF assetId \notin DOMAIN s1.assets
        THEN [es |-> s1, ret |-> Ret("assign", FALSE, taskId, userId, NoId, FALSE, <<>>)]
        ELSE [es |-> WriteAsset(s1, AddAssignmentCounts(s1.assets[assetId])),
              ret |-> [Ret("assign", FALSE, taskId, userId, NoId, FALSE, <<>>)
                          EXCEPT !.failed = {assetId}]]

\* the calls of a sweep that may fail on an asset: the search for its finished assignments,
\* or CompleteAsset
SweepFaults == {"search", "complete"}

\* the loop over the buckets when the call `fault` fails on the asset `failing`: acc is
\* [es, assets, err, failed]; a failed search returns nil, err from CompleteTask, a failed
\* CompleteAsset is logged and the loop goes on
RECURSIVE CompleteBucketsFailing(_, _, _, _, _, _)
CompleteBucketsFailing(accs, p, task, buckets, failing, fault) ==
    IF buckets = <<>> THEN accs
    ELSE LET b == Head(buckets)
             reached(acc) ==
                 /\ ~acc.err
                 /\ b = failing
                 /\ Cardinality(FinishedOn(acc.es, p, task.Id, b)) >= task.CompletionCriteria.Matching
             step(acc) ==
                 IF acc.err THEN {acc}
                 ELSE IF reached(acc)
                 THEN {IF fault = "search"
                       THEN [es |-> acc.es, assets |-> <<>>, err |-> TRUE, failed |-> {b}]
                       ELSE [acc EXCEPT !.failed = {b}]}
                 ELSE {[es |-> n.es, assets |-> n.assets, err |-> FALSE, failed |-> acc.failed]
                          : n \in CompleteBucket([es |-> acc.es, assets |-> acc.assets],
                                                 p, task, b)}
         IN CompleteBucketsFailing(UNION {step(acc) : acc \in accs}, p, task, Tail(buckets),
                                   failing, fault)

\* CompleteTask(taskId) when the call `fault` fails on the asset `failing`: the results it
\* may have; the buckets come in any order
CompleteTaskFailing(store, p, taskId, failing, fault) ==
    LET taskName == TaskId(p, taskId)
    IN  IF taskName \notin DOMAIN store.tasks
        THEN {[es |-> store, ret |-> Ret("sweep", FALSE, taskName, "", NoId, FALSE, <<>>)]}
        ELSE LET task == store.tasks[taskName]
             IN UNION {
                  {[es |-> IF acc.err THEN acc.es ELSE RefreshIndex(acc.es),
                    ret |-> [Ret("sweep", ~acc.err, taskName, "", NoId, FALSE, acc.assets)
                                EXCEPT !.failed = acc.failed]]
                     : acc \in CompleteBucketsFailing(
                                  {[es |-> store, assets |-> <<>>, err |-> FALSE, failed |-> {}]},
                                  p, task, buckets, failing, fault)}
                  : buckets \in HitOrders(Buckets(store, p, task))}

----------------------------------------------------------------------------
(* The admin's asset pages: the counters of an asset computed again *)

\* the facet of the search: the assignments of the snapshot on the asset, by State
FacetCount(store, assetId, state) ==
    Cardinality({id \in DOMAIN store.idx.assignments :
                    /\ store.idx.assignments[id].Asset.Id = assetId
                    /\ store.idx.assignments[id].State = state})

\* the states the facet has a term for
FacetTerms(store, assetId) == {st \in States : FacetCount(store, assetId, st) > 0}

\* the Counts the asset starts from: with Favorites when it had none, without otherwise
ClearedCounts(counts) ==
    IF DOMAIN counts = {} THEN ZeroCounts
    ELSE [Assignments |-> 0, finished |-> 0, skipped |-> 0, unfinished |-> 0]

\* CalculateAssetCounts(asset): [es, asset]
CalculateAssetCounts(store, asset) ==
    LET terms == FacetTerms(store, asset.Id)
        total == Cardinality({id \in DOMAIN store.idx.assignments :
                                 store.idx.assignments[id].Asset.Id = asset.Id})
        counts == [st \in terms |-> FacetCount(store, asset.Id, st)]
                  @@ ("Assignments" :> total) @@ ClearedCounts(asset.Counts)
        counted == [asset EXCEPT !.Counts = counts]
    IN [es |-> WriteAsset(store, counted), asset |-> counted]

\* GET /admin/projects/{project_id}/assets/{asset_id}
AdminAssetHandler(store, p, assetId) ==
    IF assetId \notin DOMAIN store.assets
    THEN [es |-> store, ret |-> Ret("counts", FALSE, "", "", NoId, FALSE, <<>>)]
    ELSE [es |-> CalculateAssetCounts(store, store.assets[assetId]).es,
          ret |-> Ret("counts", TRUE, "", "", NoId, FALSE, <<assetId>>)]

\* asset ids in ascending order: "a1" < "a2" < ...
AssetIndex(a) == CHOOSE i \in 1..Cardinality(Assets) : "a" \o ToString(i) = a

\* FindAssets(Params{From 0, Size 10, SortBy Id, asc}): a search, so it reads the snapshot
RECURSIVE SortById(_)
SortById(S) ==
    IF S = {} THEN <<>>
    ELSE LET a == CHOOSE x \in S : \A y \in S : AssetIndex(x.Id) <= AssetIndex(y.Id)
         IN <<a>> \o SortById(S \ {a})

FindAssets(store, p) ==
    Take(SortById({store.idx.assets[a] : a \in {i \in DOMAIN store.idx.assets :
                                                  store.idx.assets[i].Project = p}}),
         DefaultSearchSize)

\* the loop of AdminAssetsHandler over the assets found
RECURSIVE CountAll(_, _)
CountAll(store, assets) ==
    IF assets = <<>> THEN store
    ELSE CountAll(CalculateAssetCounts(store, Head(assets)).es, Tail(assets))

\* GET /admin/projects/{project_id}/assets
AdminAssetsHandler(store, p) ==
    LET assets == FindAssets(store, p)
    IN [es |-> CountAll(store, assets),
        ret |-> Ret("counts", TRUE, "", "", NoId, FALSE, [i \in DOMAIN assets |-> assets[i].Id])]

----------------------------------------------------------------------------
(* The state after the project, its tasks and its assets are imported *)

\* the README's example task: assets with no data yet for the task itself ("categorize": {})
OwnCriteria(name) == (name :> EmptyRule)

\* importTasks, then Refresh
ImportTasks(store, p, n, total, matching) ==
    RefreshIndex([store EXCEPT !.tasks =
        [id \in {TaskId(p, TaskName(i)) : i \in 1..n} |->
            LET name == TaskName(CHOOSE i \in 1..n : TaskId(p, TaskName(i)) = id)
            IN NewTask(p, name, "available", OwnCriteria(name), total, matching)]])

\* importAssets, then Refresh: SubmittedData[task.Name] = nil for the tasks FindTasks returns
ImportAssets(store, p, assetIds) ==
    LET tasks == FindTasks(store, p)
        submittedData == [name \in {tasks[i].Name : i \in DOMAIN tasks} |-> Null]
    IN RefreshIndex([store EXCEPT !.assets =
        [a \in assetIds |-> [Id |-> a, Project |-> p, SubmittedData |-> submittedData,
                             Verified |-> FALSE, Counts |-> ZeroCounts]]])

EmptyStore ==
    [assets |-> <<>>, assignments |-> <<>>, users |-> <<>>, tasks |-> <<>>,
     idx |-> [assets |-> <<>>, assignments |-> <<>>, tasks |-> <<>>, users |-> <<>>]]

Imported(n, total, matching) ==
    ImportAssets(ImportTasks(EmptyStore, Project, n, total, matching), Project, Assets)

NoReqs == <<>>
NoPlan == <<>>

Init ==
    /\ \E total \in 1..MaxTotal, matching \in 1..MaxMatching :
          es = Imported(NumTasks, total, matching)
    /\ ActiveProjectId = Project
    /\ ret = Ret("import", TRUE, "", "", NoId, FALSE, <<>>)
    /\ nops = 0
    /\ reqs = NoReqs
    /\ plan = NoPlan

----------------------------------------------------------------------------
(* Operations, each a whole call *)

Done(o) ==
    /\ es' = o.es
    /\ ret' = o.ret
    /\ nops' = nops + 1
    /\ ActiveProjectId' = Project

\* GET /projects/{project_id}/tasks/{task_id}/assignments
Allocate ==
    /\ nops < MaxOps
    /\ \E t \in DOMAIN es.tasks, u \in Users :
          \E o \in CreateAssignment(es, Project, t, u) : Done(o)
    /\ UNCHANGED <<reqs, plan>>

\* GET /projects/{project_id}/tasks/{task_id}/assets/{asset_id}/assignments
AllocateHint ==
    /\ nops < MaxOps
    /\ \E t \in DOMAIN es.tasks, u \in Users, a \in Assets :
          Done(CreateAssetAssignment(es, Project, t, u, a))
    /\ UNCHANGED <<reqs, plan>>

\* the assignments a client posts back: one it was given, with a State and an answer
Payloads ==
    {[es.assignments[id] EXCEPT !.State = st, !.SubmittedData = v] :
        id \in DOMAIN es.assignments, st \in States, v \in Values}

\* POST /projects/{project_id}/tasks/{task_id}/assignments, by the user of the assignment
\* to the URL of its task
Submit ==
    /\ nops < MaxOps
    /\ \E assignment \in Payloads :
          /\ assignment.SubmittedData = Null \/ assignment.State = "finished"
          /\ \E o \in UserCreateAssignmentHandler(es, Project, assignment.Task,
                                                  assignment.User, assignment) : Done(o)
    /\ UNCHANGED <<reqs, plan>>

\* GET /admin/projects/{project_id}/tasks/{task_id}/complete
Sweep ==
    /\ nops < MaxOps
    /\ \E i \in 1..NumTasks :
          \E o \in CompleteTask(es, Project, TaskName(i)) : Done(o)
    /\ UNCHANGED <<reqs, plan>>

\* Elasticsearch refreshes the index by itself, every refresh_interval
AutoRefresh ==
    /\ es.idx # RefreshIndex(es).idx
    /\ es' = RefreshIndex(es)
    /\ UNCHANGED <<ActiveProjectId, ret, nops, reqs, plan>>

Next == Allocate \/ AllocateHint \/ Submit \/ Sweep \/ AutoRefresh

Spec == Init /\ [][Next]_vars

\* the workers' requests alone: no sweep is run
NextWork == Allocate \/ AllocateHint \/ Submit \/ AutoRefresh

SpecWork == Init /\ [][NextWork]_vars

----------------------------------------------------------------------------
(* Concurrent requests: CreateAssignment step by step, two requests at a time *)

Slots == {"r1", "r2"}

InFlight(slot) == slot \in DOMAIN reqs /\ reqs[slot].pc # "done"

\* the request reads: user, task, unfinished assignment, eligible asset
BeginCreateAssignment(slot) ==
    /\ slot \notin DOMAIN reqs
    /\ \E t \in DOMAIN es.tasks, u \in Users :
          \E r \in CreateAssignmentRead(es, Project, t, u) :
             /\ es' = r.es
             /\ reqs' = Put(reqs, slot,
                            [pc |-> IF r.kind = "picked" THEN "picked" ELSE "done",
                             task |-> t, user |-> u, asset |-> r.asset, id |-> r.id,
                             ok |-> r.kind # "error", created |-> FALSE,
                             overlapped |-> \E other \in Slots \ {slot} : InFlight(other)])
    /\ ActiveProjectId' = Project
    /\ UNCHANGED <<ret, nops, plan>>

\* the request writes the asset with its raised counts
StoreAsset(slot) ==
    /\ slot \in DOMAIN reqs /\ reqs[slot].pc = "picked"
    /\ es' = WriteAsset(es, reqs[slot].asset)
    /\ reqs' = [reqs EXCEPT ![slot].pc = "assetStored"]
    /\ UNCHANGED <<ActiveProjectId, ret, nops, plan>>

\* the request writes the new assignment and returns it
StoreAssignment(slot) ==
    /\ slot \in DOMAIN reqs /\ reqs[slot].pc = "assetStored"
    /\ LET a == NewAssignment(ActiveProjectId, reqs[slot].task, reqs[slot].user, reqs[slot].asset)
       IN /\ es' = WriteAssignment(es, a)
          /\ reqs' = [reqs EXCEPT ![slot].pc = "done", ![slot].id = a.Id,
                                  ![slot].created = TRUE]
    /\ UNCHANGED <<ActiveProjectId, ret, nops, plan>>

NextConc ==
    \/ \E slot \in Slots : BeginCreateAssignment(slot)
    \/ \E slot \in Slots : StoreAsset(slot)
    \/ \E slot \in Slots : StoreAssignment(slot)
    \/ AutoRefresh

SpecConc == Init /\ [][NextConc]_vars

\* a second project of the same server
OtherProject == "p2"

\* a request addressed to the other project begins: s.ActiveProjectId = vars["project_id"]
OtherProjectRequest ==
    /\ ActiveProjectId # OtherProject
    /\ ActiveProjectId' = OtherProject
    /\ UNCHANGED <<es, ret, nops, reqs, plan>>

NextProj ==
    \/ \E slot \in Slots : BeginCreateAssignment(slot)
    \/ \E slot \in Slots : StoreAsset(slot)
    \/ \E slot \in Slots : StoreAssignment(slot)
    \/ OtherProjectRequest
    \/ AutoRefresh

SpecProj == Init /\ [][NextProj]_vars

----------------------------------------------------------------------------
(* The sweep at scale: one asset given to many users, in a project of many tasks. *)
(* The users act one after the other as the plan says: the tasks after the first  *)
(* are each finished by a quorum of agreeing users and swept, last task first;    *)
(* then the first task is finished by any number of users and swept.              *)

SweepAsset == "a1"
SweepUser(i) == "w" \o ToString(i)

\* the answers in the order in which the users of the first task give them
AnswerRank(v) == IF v = "usable" THEN 1 ELSE IF v = "unusable" THEN 2 ELSE 3

Quorum(store) ==
    LET c == store.tasks[TaskId(Project, TaskName(1))].CompletionCriteria
    IN IF c.Total < c.Matching THEN c.Matching ELSE c.Total

InitSweep ==
    /\ \E nt \in 1..MaxSweepTasks, total \in 1..MaxTotal, matching \in 1..MaxMatching :
         \E skipLast \in BOOLEAN :
            /\ skipLast => nt > 1
            /\ es = Imported(nt, total, matching)
            /\ plan = [task |-> IF skipLast THEN nt - 1 ELSE nt, users |-> 0,
                       step |-> "assign", rank |-> 1, sweeps |-> 0]
    /\ ActiveProjectId = Project
    /\ ret = Ret("import", TRUE, "", "", NoId, FALSE, <<>>)
    /\ nops = 0
    /\ reqs = NoReqs

\* the next user is given the asset: CreateAssetAssignment
WorkerAssigned ==
    /\ plan.step = "assign"
    /\ plan.sweeps = 0
    /\ IF plan.task > 1 THEN plan.users < Quorum(es)
       ELSE /\ plan.users < MaxSweepUsers
            /\ Cardinality(DOMAIN es.tasks) = 1 \/ plan.users < MaxMatching
    /\ Done(CreateAssetAssignment(es, Project, TaskId(Project, TaskName(plan.task)),
                                  SweepUser(plan.users + 1), SweepAsset))
    /\ plan' = [plan EXCEPT !.step = "submit"]
    /\ UNCHANGED reqs

\* and submits it finished: UserCreateAssignmentHandler
WorkerSubmits ==
    /\ plan.step = "submit"
    /\ \E v \in Values :
          /\ IF plan.task > 1 THEN v = "usable" ELSE AnswerRank(v) >= plan.rank
          /\ LET task == TaskId(Project, TaskName(plan.task))
                 user == SweepUser(plan.users + 1)
                 id == AssignmentId(Project, task, SweepAsset, user)
             IN \E o \in UserCreateAssignmentHandler(es, Project, task, user,
                          [es.assignments[id] EXCEPT !.State = "finished",
                                                     !.SubmittedData = v]) : Done(o)
          /\ plan' = [plan EXCEPT !.step = "assign", !.users = @ + 1,
                                  !.rank = IF plan.task > 1 THEN 1 ELSE AnswerRank(v)]
    /\ UNCHANGED reqs

\* a task after the first is swept once its quorum has finished
SweepOther ==
    /\ plan.step = "assign"
    /\ plan.task > 1
    /\ plan.users = Quorum(es)
    /\ \E o \in CompleteTask(es, Project, TaskName(plan.task)) : Done(o)
    /\ plan' = [plan EXCEPT !.task = @ - 1, !.users = 0]
    /\ UNCHANGED reqs

\* the sweep of the first task
SweepFirst ==
    /\ plan.step = "assign"
    /\ plan.task = 1
    /\ plan.sweeps < MaxSweeps
    /\ \E o \in CompleteTask(es, Project, TaskName(1)) : Done(o)
    /\ plan' = [plan EXCEPT !.sweeps = @ + 1]
    /\ UNCHANGED reqs

NextSweep == WorkerAssigned \/ WorkerSubmits \/ SweepOther \/ SweepFirst

SpecSweep == InitSweep /\ [][NextSweep]_vars

----------------------------------------------------------------------------
(* Projects whose second task depends on the answers of the first, and whose    *)
(* tasks are disabled and enabled while the workers act.                        *)

\* the AssignmentCriteria.SubmittedData an import gives the second task: its own empty
\* rule, an empty rule under the first task, an answer of the first task required, or both
\* tasks still without data
CriteriaChoices ==
    {OwnCriteria(TaskName(2)),
     (TaskName(1) :> EmptyRule),
     (TaskName(1) :> "usable") @@ (TaskName(2) :> EmptyRule),
     (TaskName(1) :> EmptyRule) @@ (TaskName(2) :> EmptyRule)}

\* the assets an import brings
AssetChoices == {{"a1"}, Assets}

\* importTasks with the given AssignmentCriteria for the second task, then importAssets
ImportedWith(criteria, assetIds) ==
    LET s1 == ImportTasks(EmptyStore, Project, NumTasks, 1, 1)
        id == TaskId(Project, TaskName(2))
        s2 == RefreshIndex(Index(s1, "tasks", id,
                                 [s1.tasks[id] EXCEPT !.AssignmentCriteria = criteria]))
    IN ImportAssets(s2, Project, assetIds)

InitElig ==
    /\ \E criteria \in CriteriaChoices, assetIds \in AssetChoices :
          es = ImportedWith(criteria, assetIds)
    /\ ActiveProjectId = Project
    /\ ret = Ret("import", TRUE, "", "", NoId, FALSE, <<>>)
    /\ nops = 0
    /\ reqs = NoReqs
    /\ plan = NoPlan

DisableTask ==
    /\ nops < MaxOps
    /\ \E i \in 1..NumTasks : Done(DisableTaskHandler(es, Project, TaskName(i)))
    /\ UNCHANGED <<reqs, plan>>

EnableTask ==
    /\ nops < MaxOps
    /\ \E i \in 1..NumTasks : Done(EnableTaskHandler(es, Project, TaskName(i)))
    /\ UNCHANGED <<reqs, plan>>

NextElig ==
    Allocate \/ AllocateHint \/ Submit \/ Sweep \/ DisableTask \/ EnableTask \/ AutoRefresh

SpecElig == InitElig /\ [][NextElig]_vars

----------------------------------------------------------------------------
(* Favorites and external ids: the users favorite and unfavorite assets, are looked *)
(* up by an external id, and two records of one person are connected.               *)

ExternalIds == {"x", "0"}

\* the value of the cookie of a request: a stored user, none, or a user that is not stored
Cookies(store) == DOMAIN store.users \cup {"", "u1"}

InitFav ==
    /\ es = Imported(NumTasks, 1, 1)
    /\ ActiveProjectId = Project
    /\ ret = Ret("import", TRUE, "", "", NoId, FALSE, <<>>)
    /\ nops = 0
    /\ reqs = NoReqs
    /\ plan = NoPlan

\* GET /projects/{project_id}/assets/{asset_id}/favorite
Favorite ==
    /\ nops < MaxFavOps
    /\ \E a \in Assets, u \in Cookies(es) : Done(FavoriteHandler(es, Project, a, u))
    /\ UNCHANGED <<reqs, plan>>

\* POST /projects/{project_id}/user/external
ExternalUser ==
    /\ nops < MaxFavOps
    /\ \E id \in Cookies(es), x \in ExternalIds :
          \E o \in ExternalUserHandler(es, Project, id, x, FALSE) : Done(o)
    /\ UNCHANGED <<reqs, plan>>

\* POST /projects/{project_id}/user/external/{connect}
ConnectUser ==
    /\ nops < MaxFavOps
    /\ \E id \in Cookies(es), x \in ExternalIds :
          \E o \in ExternalUserHandler(es, Project, id, x, TRUE) : Done(o)
    /\ UNCHANGED <<reqs, plan>>

NextFav == Favorite \/ ExternalUser \/ ConnectUser \/ AutoRefresh

SpecFav == InitFav /\ [][NextFav]_vars

----------------------------------------------------------------------------
(* A favorite request step by step, while other requests are served whole *)

FavSlots == {"f1"}

\* the request reads the asset and the user, and decides what to store
BeginFavorite(slot) ==
    /\ slot \notin DOMAIN reqs
    /\ \E a \in Assets, u \in DOMAIN es.users \cup {""} :
          LET r == FavoriteRead(es, Project, a, u)
          IN /\ es' = r.es
             /\ reqs' = Put(reqs, slot, [pc |-> IF r.ok THEN "read" ELSE "done",
                                         asset |-> r.asset, user |-> r.user,
                                         action |-> r.action])
    /\ ActiveProjectId' = Project
    /\ UNCHANGED <<ret, nops, plan>>

\* the request writes the asset with its new Favorites counter
StoreFavoriteAsset(slot) ==
    /\ slot \in DOMAIN reqs /\ reqs[slot].pc = "read"
    /\ es' = WriteAsset(es, reqs[slot].asset)
    /\ reqs' = [reqs EXCEPT ![slot].pc = "assetStored"]
    /\ UNCHANGED <<ActiveProjectId, ret, nops, plan>>

\* the request writes the user and returns the Action
StoreFavoriteUser(slot) ==
    /\ slot \in DOMAIN reqs /\ reqs[slot].pc = "assetStored"
    /\ es' = WriteUser(es, reqs[slot].user)
    /\ reqs' = [reqs EXCEPT ![slot].pc = "done"]
    /\ UNCHANGED <<ActiveProjectId, ret, nops, plan>>

\* the other requests: one worker on the first task
ConcWorker == "u1"
ConcTask == TaskId(Project, TaskName(1))

\* GET .../tasks/{task_id}/assignments by the worker
WorkerAllocates ==
    /\ nops < MaxConcOps
    /\ \E o \in CreateAssignment(es, Project, ConcTask, ConcWorker) : Done(o)
    /\ UNCHANGED <<reqs, plan>>

\* POST .../tasks/{task_id}/assignments by the worker: an assignment finished with an answer
WorkerFinishes ==
    /\ nops < MaxConcOps
    /\ \E id \in DOMAIN es.assignments, v \in Answers :
          /\ es.assignments[id].User = ConcWorker /\ es.assignments[id].Task = ConcTask
          /\ \E o \in UserCreateAssignmentHandler(es, Project, ConcTask, ConcWorker,
                       [es.assignments[id] EXCEPT !.State = "finished",
                                                  !.SubmittedData = v]) : Done(o)
    /\ UNCHANGED <<reqs, plan>>

\* GET /admin/.../tasks/{task_id}/complete for the first task
AdminSweeps ==
    /\ nops < MaxConcOps
    /\ \E o \in CompleteTask(es, Project, TaskName(1)) : Done(o)
    /\ UNCHANGED <<reqs, plan>>

NextFavConc ==
    \/ \E slot \in FavSlots : BeginFavorite(slot)
    \/ \E slot \in FavSlots : StoreFavoriteAsset(slot)
    \/ \E slot \in FavSlots : StoreFavoriteUser(slot)
    \/ WorkerAllocates
    \/ WorkerFinishes
    \/ AdminSweeps
    \/ AutoRefresh

SpecFavConc == InitFav /\ [][NextFavConc]_vars

----------------------------------------------------------------------------
(* The admin looks at the assets while a worker works on the first task *)

\* GET /admin/projects/{project_id}/assets/{asset_id}
AdminAsset ==
    /\ nops < MaxConcOps
    /\ \E a \in Assets : Done(AdminAssetHandler(es, Project, a))
    /\ UNCHANGED <<reqs, plan>>

\* GET /admin/projects/{project_id}/assets
AdminAssets ==
    /\ nops < MaxConcOps
    /\ Done(AdminAssetsHandler(es, Project))
    /\ UNCHANGED <<reqs, plan>>

NextCounts ==
    \/ WorkerAllocates
    \/ WorkerFinishes
    \/ AdminSweeps
    \/ AdminAsset
    \/ AdminAssets
    \/ AutoRefresh

SpecCounts == InitFav /\ [][NextCounts]_vars

----------------------------------------------------------------------------
(* The admin posts the first task again, with other rules, while a worker works on it *)

\* the AssignmentCriteria.SubmittedData of the posted task: its own empty rule, an answer
\* required, or a rule that is not an object
PostedCriteria ==
    {OwnCriteria(TaskName(1)), (TaskName(1) :> "usable"), (TaskName(1) :> NotAMapping)}

\* POST /admin/projects/{project_id}/tasks
AdminCreatesTask ==
    /\ nops < MaxConcOps
    /\ \E criteria \in PostedCriteria :
          Done(AdminCreateTaskHandler(es, Project,
                   NewTask(Project, TaskName(1), "available", criteria, 1, 1)))
    /\ UNCHANGED <<reqs, plan>>

NextRules ==
    \/ AdminCreatesTask
    \/ WorkerAllocates
    \/ WorkerFinishes
    \/ AdminSweeps
    \/ AutoRefresh

SpecRules == InitFav /\ [][NextRules]_vars

----------------------------------------------------------------------------
(* A worker on the first task and the admin's sweep, while calls to the store may fail *)

\* POST .../tasks/{task_id}/assignments by the worker: an assignment skipped
WorkerSkips ==
    /\ nops < MaxConcOps
    /\ \E id \in DOMAIN es.assignments :
          /\ es.assignments[id].User = ConcWorker /\ es.assignments[id].Task = ConcTask
          /\ \E o \in UserCreateAssignmentHandler(es, Project, ConcTask, ConcWorker,
                       [es.assignments[id] EXCEPT !.State = "skipped",
                                                  !.SubmittedData = Null]) : Done(o)
    /\ UNCHANGED <<reqs, plan>>

\* GET .../tasks/{task_id}/assignments by the worker, the Index of the assignment failing
AllocateFails ==
    /\ nops < MaxConcOps
    /\ \E o \in CreateAssignmentFailing(es, Project, ConcTask, ConcWorker) : Done(o)
    /\ UNCHANGED <<reqs, plan>>

\* GET .../tasks/{task_id}/assets/{asset_id}/assignments by the worker, the Index of the
\* assignment failing
AssignFails ==
    /\ nops < MaxConcOps
    /\ \E a \in Assets :
          Done(CreateAssetAssignmentFailing(es, Project, ConcTask, ConcWorker, a))
    /\ UNCHANGED <<reqs, plan>>

\* GET /admin/.../tasks/{task_id}/complete for the first task, a call failing on one asset
SweepFails ==
    /\ nops < MaxConcOps
    /\ \E a \in Assets, fault \in SweepFaults :
          \E o \in CompleteTaskFailing(es, Project, TaskName(1), a, fault) : Done(o)
    /\ UNCHANGED <<reqs, plan>>

NextFault ==
    \/ WorkerAllocates
    \/ WorkerFinishes
    \/ WorkerSkips
    \/ AdminSweeps
    \/ AllocateFails
    \/ AssignFails
    \/ SweepFails
    \/ AutoRefresh

SpecFault == InitFav /\ [][NextFault]_vars

----------------------------------------------------------------------------
(* CompleteTask step by step, two sweeps at a time, while a worker works on the first task *)

SweepSlots == {"s1", "s2"}

\* the sweep finds its task and reads the buckets of the aggregation
BeginSweep(slot) ==
    /\ slot \notin DOMAIN reqs
    /\ \E i \in 1..NumTasks :
          LET task == es.tasks[TaskId(Project, TaskName(i))]
          IN \E buckets \in HitOrders(Buckets(es, Project, task)) :
                reqs' = Put(reqs, slot,
                            [pc |-> "buckets", task |-> task.Id, buckets |-> buckets,
                             hits |-> <<>>, assets |-> <<>>,
                             overlapped |-> \E other \in SweepSlots \ {slot} : InFlight(other)])
    /\ ActiveProjectId' = Project
    /\ UNCHANGED <<es, ret, nops, plan>>

\* the sweep searches the finished assignments of its next bucket
ReadBucket(slot) ==
    /\ slot \in DOMAIN reqs /\ reqs[slot].pc = "buckets" /\ reqs[slot].buckets # <<>>
    /\ LET task == es.tasks[reqs[slot].task]
           b == Head(reqs[slot].buckets)
           finished == FinishedOn(es, Project, task.Id, b)
       IN IF Cardinality(finished) < task.CompletionCriteria.Matching
          THEN reqs' = [reqs EXCEPT ![slot].buckets = Tail(@)]
          ELSE \E H \in Truncations(finished, DefaultSearchSize) :
                  \E hits \in HitOrders(H) :
                     reqs' = [reqs EXCEPT ![slot].pc = "read",
                                          ![slot].hits = [i \in DOMAIN hits |->
                                                             es.idx.assignments[hits[i]]]]
    /\ UNCHANGED <<es, ActiveProjectId, ret, nops, plan>>

\* the sweep collates the answers it read, completes the asset and verifies the assignments
CompleteRead(slot) ==
    /\ slot \in DOMAIN reqs /\ reqs[slot].pc = "read"
    /\ LET r == reqs[slot]
           sdTrackers == Collate(<<>>, [i \in DOMAIN r.hits |-> r.hits[i].SubmittedData])
           n == CompleteTrackers([es |-> es, assets |-> r.assets], Project, es.tasks[r.task],
                                 Head(r.buckets), sdTrackers, r.hits)
       IN /\ es' = n.es
          /\ reqs' = [reqs EXCEPT ![slot].pc = "buckets", ![slot].buckets = Tail(@),
                                  ![slot].hits = <<>>, ![slot].assets = n.assets]
    /\ UNCHANGED <<ActiveProjectId, ret, nops, plan>>

\* the sweep refreshes the index and returns its assets
EndSweep(slot) ==
    /\ slot \in DOMAIN reqs /\ reqs[slot].pc = "buckets" /\ reqs[slot].buckets = <<>>
    /\ es' = RefreshIndex(es)
    /\ reqs' = [reqs EXCEPT ![slot].pc = "done"]
    /\ UNCHANGED <<ActiveProjectId, ret, nops, plan>>

NextSweepConc ==
    \/ \E slot \in SweepSlots : BeginSweep(slot)
    \/ \E slot \in SweepSlots : ReadBucket(slot)
    \/ \E slot \in SweepSlots : CompleteRead(slot)
    \/ \E slot \in SweepSlots : EndSweep(slot)
    \/ WorkerAllocates
    \/ WorkerFinishes
    \/ AutoRefresh

SpecSweepConc == InitFav /\ [][NextSweepConc]_vars

----------------------------------------------------------------------------
(* Two workers on the first task, and sweeps of it between their submits *)

\* GET .../tasks/{task_id}/assignments by either worker
EitherAllocates ==
    /\ nops < MaxLateOps
    /\ \E u \in Users : \E o \in CreateAssignment(es, Project, ConcTask, u) : Done(o)
    /\ UNCHANGED <<reqs, plan>>

\* POST .../tasks/{task_id}/assignments by a worker: its unfinished assignment finished
\* with an answer
EitherFinishes ==
    /\ nops < MaxLateOps
    /\ \E id \in DOMAIN es.assignments, v \in Answers :
          /\ es.assignments[id].Task = ConcTask /\ es.assignments[id].State = "unfinished"
          /\ \E o \in UserCreateAssignmentHandler(es, Project, ConcTask, es.assignments[id].User,
                       [es.assignments[id] EXCEPT !.State = "finished",
                                                  !.SubmittedData = v]) : Done(o)
    /\ UNCHANGED <<reqs, plan>>

\* GET /admin/.../tasks/{task_id}/complete for the first task
LateSweep ==
    /\ nops < MaxLateOps
    /\ \E o \in CompleteTask(es, Project, TaskName(1)) : Done(o)
    /\ UNCHANGED <<reqs, plan>>

NextLate ==
    \/ EitherAllocates
    \/ EitherFinishes
    \/ LateSweep
    \/ AutoRefresh

SpecLate == InitFav /\ [][NextLate]_vars

----------------------------------------------------------------------------
(* Workers mark favorites while the admin looks at the assets *)

NextFavCounts ==
    \/ Favorite
    \/ WorkerAllocates
    \/ WorkerFinishes
    \/ AdminAsset
    \/ AdminAssets
    \/ AutoRefresh

SpecFavCounts == InitFav /\ [][NextFavCounts]_vars

----------------------------------------------------------------------------
(* The fold of CompleteTask over the hits of one bucket, on its own: the payloads of *)
(* the hits are any sequence of answers, and each step folds the next one in         *)

PayloadSeqs == UNION {[1..n -> Values] : n \in 0..MaxPayloads}

InitCollate ==
    /\ es = Imported(NumTasks, 1, 1)
    /\ ActiveProjectId = Project
    /\ ret = Ret("import", TRUE, "", "", NoId, FALSE, <<>>)
    /\ nops = 0
    /\ reqs = NoReqs
    /\ \E items \in PayloadSeqs : plan = [items |-> items, folded |-> 0, sdTrackers |-> <<>>]

\* sdTrackers = collateSubmittedData(sdTrackers, matchingAssignment.SubmittedData)
CollateHit ==
    /\ plan.folded < Len(plan.items)
    /\ plan' = [plan EXCEPT !.folded = @ + 1,
                            !.sdTrackers = collateSubmittedData(@, plan.items[plan.folded + 1])]
    /\ UNCHANGED <<es, ActiveProjectId, ret, nops, reqs>>

NextCollate == CollateHit

SpecCollate == InitCollate /\ [][NextCollate]_vars

----------------------------------------------------------------------------
(* The assignment id as a string: the four identifiers are joined with "HIVE" when the *)
(* assignment is created, and the id of a hit is split on "HIVE" by the selector.      *)
(* Strings are sequences of characters here.                                           *)

\* a separator that has a border: it ends with the letter it begins with
BorderedSeparator == <<"H", "I", "H">>

\* the separator "HIVE"
Separator == <<"H", "I", "V", "E">>

\* strings.Contains(s, sep)
Contains(s, sep) ==
    \E i \in 1..(Len(s) - Len(sep) + 1) : SubSeq(s, i, i + Len(sep) - 1) = sep

\* strings.Index(s, sep): the position of the first sep in s, 0 when there is none
StringsIndex(s, sep) ==
    IF ~Contains(s, sep) THEN 0
    ELSE CHOOSE i \in 1..(Len(s) - Len(sep) + 1) :
            /\ SubSeq(s, i, i + Len(sep) - 1) = sep
            /\ \A j \in 1..(i - 1) : SubSeq(s, j, j + Len(sep) - 1) # sep

\* strings.Join(parts, sep)
RECURSIVE Join(_, _)
Join(parts, sep) ==
    IF parts = <<>> THEN <<>>
    ELSE IF Len(parts) = 1 THEN parts[1]
    ELSE parts[1] \o sep \o Join(Tail(parts), sep)

\* strings.Split(s, sep) for a sep that is not empty: s is cut at the first sep, then
\* the rest after that sep is cut in the same way
RECURSIVE Split(_, _)
Split(s, sep) ==
    LET i == StringsIndex(s, sep)
    IN IF i = 0 THEN <<s>>
       ELSE <<SubSeq(s, 1, i - 1)>> \o Split(SubSeq(s, i + Len(sep), Len(s)), sep)

\* the identifiers tried: every piece of at most MaxIdLen characters of a text made of an
\* ordinary character and the separator written twice, the separator itself excepted
Pieces(text) ==
    {SubSeq(text, i, j) : i \in 1..(Len(text) + 1), j \in 0..Len(text)}
Identifiers ==
    {s \in Pieces(<<"a">> \o Separator \o Separator) :
        Len(s) <= MaxIdLen /\ ~Contains(s, Separator)}

InitIds ==
    /\ es = Imported(NumTasks, 1, 1)
    /\ ActiveProjectId = Project
    /\ ret = Ret("import", TRUE, "", "", NoId, FALSE, <<>>)
    /\ nops = 0
    /\ reqs = NoReqs
    /\ \E p, t, a, u \in Identifiers :
          plan = [parts |-> <<p, t, a, u>>, step |-> "start", id |-> <<>>, idParts |-> <<>>]

\* assignmentId := strings.Join([]string{project, taskId, assetId, userId}, "HIVE")
JoinId ==
    /\ plan.step = "start"
    /\ plan' = [plan EXCEPT !.step = "joined", !.id = Join(plan.parts, Separator)]
    /\ UNCHANGED <<es, ActiveProjectId, ret, nops, reqs>>

\* idParts := strings.Split(hit.Id, "HIVE")
SplitId ==
    /\ plan.step = "joined"
    /\ plan' = [plan EXCEPT !.step = "split", !.idParts = Split(plan.id, Separator)]
    /\ UNCHANGED <<es, ActiveProjectId, ret, nops, reqs>>

NextIds == JoinId \/ SplitId

SpecIds == InitIds /\ [][NextIds]_vars

----------------------------------------------------------------------------
(* Properties *)

\* the stored assignments of user u on task t that are unfinished
UnfinishedIds(store, t, u) ==
    {id \in DOMAIN store.assignments :
        LET d == store.assignments[id]
        IN d.Project = Project /\ d.Task = t /\ d.User = u /\ d.State = "unfinished"}

\* the stored assignments on asset a for task t, and those of them that are finished
AssignmentsOn(store, t, a) ==
    {id \in DOMAIN store.assignments :
        LET d == store.assignments[id]
        IN d.Project = Project /\ d.Task = t /\ d.Asset.Id = a}

Fin(store, t, a) == {id \in AssignmentsOn(store, t, a) : store.assignments[id].State = "finished"}

\* the finished assignments on a for t that carry the value v
Part(store, t, a, v) == {id \in Fin(store, t, a) : DeepEqual(store.assignments[id].SubmittedData, v)}

\* the values that reach consensus on a for the task
Winners(store, task, a) ==
    {v \in Values :
        /\ Cardinality(Fin(store, task.Id, a)) >= task.CompletionCriteria.Total
        /\ Cardinality(Part(store, task.Id, a, v)) >= task.CompletionCriteria.Matching}

\* this step is a whole call of the named operation
Called(op) == ret'.op = op /\ nops' = nops + 1

\* the task a sweep step swept
Swept == es.tasks[ret'.task]

\* C1: in every reachable state each (project, task, worker) has at most one stored
\* assignment in state unfinished.
AtMostOneUnfinished ==
    \A t \in DOMAIN es.tasks, u \in DOMAIN es.users :
        Cardinality(UnfinishedIds(es, t, u)) <= 1

\* C2: an allocate call that directly follows an allocate call of the same worker on the
\* same available task returns the same assignment, creates no assignment record and
\* changes no asset counter, refreshed store or not.
SecondAllocateSame ==
    [][(/\ ret.op = "allocate" /\ ret.ok
        /\ Called("allocate")
        /\ ret'.task = ret.task /\ ret'.user = ret.user)
       => (/\ ret'.ok
           /\ ret'.id = ret.id
           /\ es'.assignments = es.assignments
           /\ es'.assets = es.assets)]_vars

\* C3: two allocate calls of one worker on one task that ran concurrently never both
\* created an unfinished assignment, on two different assets.
NoDoubleAllocation ==
    \A s1, s2 \in Slots :
        (/\ s1 # s2
         /\ s1 \in DOMAIN reqs /\ s2 \in DOMAIN reqs
         /\ reqs[s1].pc = "done" /\ reqs[s2].pc = "done"
         /\ reqs[s1].created /\ reqs[s2].created
         /\ reqs[s1].overlapped \/ reqs[s2].overlapped
         /\ reqs[s1].task = reqs[s2].task /\ reqs[s1].user = reqs[s2].user
         /\ es.assignments[reqs[s1].id].State = "unfinished"
         /\ es.assignments[reqs[s2].id].State = "unfinished")
        => IdParts(reqs[s1].id)[3] = IdParts(reqs[s2].id)[3]

\* C4: after every allocate, with or without hint, and every submit, every stored asset
\* has Counts[Assignments] = Counts[finished] + Counts[skipped] + Counts[unfinished].
CountsAddUp ==
    \A a \in DOMAIN es.assets :
        LET c == es.assets[a].Counts
        IN ret.op \in {"allocate", "assign", "submit"}
           => CountOf(c, "Assignments") =
                 CountOf(c, "finished") + CountOf(c, "skipped") + CountOf(c, "unfinished")

\* C5: a stored assignment changes State only from unfinished to finished or skipped, or
\* from finished to verified.
LegalTransitions ==
    [][\A id \in DOMAIN es.assignments :
          \/ es'.assignments[id].State = es.assignments[id].State
          \/ <<es.assignments[id].State, es'.assignments[id].State>> \in
                {<<"unfinished", "finished">>, <<"unfinished", "skipped">>,
                 <<"finished", "verified">>}]_vars

\* C6: no submit leaves an assignment stored as verified that was not verified before it.
SubmitNeverVerifies ==
    [][Called("submit")
       => \A id \in DOMAIN es'.assignments :
             es'.assignments[id].State = "verified"
             => id \in DOMAIN es.assignments /\ es.assignments[id].State = "verified"]_vars

\* C7: when a sweep runs and an asset has at least Total finished assignments for the task,
\* at least Matching of them with the same value, then after it the asset holds such a
\* value, every assignment of that partition is verified and the asset is returned.
SweepCompletesWinner ==
    [][(Called("sweep") /\ ret'.ok)
       => \A a \in DOMAIN es.assets :
             Winners(es, Swept, a) # {}
             => \E v \in Winners(es, Swept, a) :
                   /\ Get(es'.assets[a].SubmittedData, Swept.Name) = v
                   /\ \A id \in Part(es, Swept.Id, a, v) :
                         es'.assignments[id].State = "verified"
                   /\ a \in Range(ret'.assets)]_vars

\* C8: a sweep writes a value on an asset only if the asset has at least Total finished
\* assignments for the task and at least Matching of them carry that value; an asset that
\* reaches Total with no partition reaching Matching is left as it was, and so are its
\* assignments.
SweepWritesOnlyConsensus ==
    [][(Called("sweep") /\ ret'.ok)
       => \A a \in DOMAIN es.assets :
             /\ a \in Range(ret'.assets)
                => Get(es'.assets[a].SubmittedData, Swept.Name) \in Winners(es, Swept, a)
             /\ (/\ Cardinality(Fin(es, Swept.Id, a)) >= Swept.CompletionCriteria.Total
                 /\ Winners(es, Swept, a) = {})
                => /\ es'.assets[a] = es.assets[a]
                   /\ \A id \in AssignmentsOn(es, Swept.Id, a) :
                         es'.assignments[id] = es.assignments[id]]_vars

\* C9: when a sweep verifies an asset with a winning value, every finished assignment on
\* the asset for the task that carries another value is still finished after the sweep.
LosersStayFinished ==
    [][(Called("sweep") /\ ret'.ok)
       => \A a \in Range(ret'.assets) :
             \A id \in Fin(es, Swept.Id, a) :
                ~DeepEqual(es.assignments[id].SubmittedData,
                           Get(es'.assets[a].SubmittedData, Swept.Name))
                => es'.assignments[id].State = "finished"]_vars

\* C10: after a sweep completes an asset, the asset is Verified if and only if every task
\* of the project has a non-null entry in its SubmittedData.
VerifiedIffAllTasks ==
    [][(Called("sweep") /\ ret'.ok)
       => \A a \in Range(ret'.assets) :
             es'.assets[a].Verified
             <=> \A t \in DOMAIN es'.tasks :
                    Get(es'.assets[a].SubmittedData, es'.tasks[t].Name) # Null]_vars

\* the index is fresh: a search sees every stored document
Fresh(store) == store.idx = RefreshIndex(store).idx

\* the stored assignments of user u on task t for asset a, in any state
HasAssignment(store, t, a, u) == AssignmentId(Project, t, a, u) \in DOMAIN store.assignments

\* C13: an allocate, or the allocation that follows a submit, never creates an assignment
\* on an asset for which the worker already has an assignment on the task, in any state
\* (here even when the index was fresh before the call).
NeverSameAssetTwice ==
    [][(/\ Fresh(es)
        /\ Called("allocate") \/ Called("submit")
        /\ ret'.created)
       => LET id == IF ret'.op = "submit" THEN ret'.next ELSE ret'.id
          IN ~HasAssignment(es, ret'.task, IdParts(id)[3], ret'.user)]_vars

\* this step is a submit that posts again, unchanged, the finished assignment that is
\* stored, and hands out no new assignment after it
Resubmitted ==
    /\ Called("submit")
    /\ ~ret'.created
    /\ ret'.id \in DOMAIN es.assignments
    /\ es.assignments[ret'.id].State = "finished"
    /\ es'.assignments[ret'.id].State = "finished"
    /\ es'.assignments[ret'.id].SubmittedData = es.assignments[ret'.id].SubmittedData

\* C16: submitting again the finished payload that is already stored leaves the asset's
\* counters, the worker's counts and the stored assignment as they were.
ResubmitChangesNothing ==
    [][Resubmitted
       => LET a == IdParts(ret'.id)[3]
          IN /\ es'.assets[a].Counts = es.assets[a].Counts
             /\ es'.users[ret'.user].Counts = es.users[ret'.user].Counts
             /\ es'.assignments[ret'.id] = es.assignments[ret'.id]]_vars

\* C17: no stored asset ever has a negative counter.
NoNegativeCounter ==
    \A a \in DOMAIN es.assets :
        \A k \in DOMAIN es.assets[a].Counts : es.assets[a].Counts[k] >= 0

\* what the AssignmentCriteria of a task ask of an asset: no data for the task of an empty
\* rule, the answer of the rule for the task of any other rule
Asks(task, P, asset) ==
    IF task.AssignmentCriteria[P] = EmptyRule
    THEN Get(asset.SubmittedData, P) = Null
    ELSE Get(asset.SubmittedData, P) = task.AssignmentCriteria[P]

\* the asset this step allocated, as it was stored before the step
Allocated ==
    es.assets[IdParts(IF ret'.op = "submit" THEN ret'.next ELSE ret'.id)[3]]

\* this step ran CreateAssignment and it created an assignment
Created == (Called("allocate") \/ Called("submit")) /\ ret'.created

\* C11: an allocation for a task with an empty rule under a task P, its own or another,
\* selects only an asset that has no answer recorded for P.
EmptyRuleSelectsUnanswered ==
    [][Created
       => \A P \in DOMAIN es.tasks[ret'.task].AssignmentCriteria :
             es.tasks[ret'.task].AssignmentCriteria[P] = EmptyRule
             => Get(Allocated.SubmittedData, P) = Null]_vars

\* C12: an allocation for a task with several entries in its AssignmentCriteria selects
\* only an asset that satisfies every entry.
CriteriaAreConjunctive ==
    [][(Created /\ Cardinality(DOMAIN es.tasks[ret'.task].AssignmentCriteria) > 1)
       => \A P \in DOMAIN es.tasks[ret'.task].AssignmentCriteria :
             Asks(es.tasks[ret'.task], P, Allocated)]_vars

\* C14: an allocate, with or without hint, for a task that is not available fails, stores
\* no assignment record and changes no asset counter.
UnavailableTaskRefuses ==
    [][(/\ Called("allocate") \/ Called("assign")
        /\ ret'.task \in DOMAIN es.tasks
        /\ es.tasks[ret'.task].CurrentState # "available")
       => (/\ ~ret'.ok
           /\ es'.assignments = es.assignments
           /\ \A a \in DOMAIN es.assets : es'.assets[a].Counts = es.assets[a].Counts)]_vars

\* the worker of this allocate has no unfinished assignment on the available task, and no
\* asset that satisfies the criteria is left that the worker has no assignment for
NoWorkLeft ==
    /\ Called("allocate")
    /\ ret'.task \in DOMAIN es.tasks
    /\ es.tasks[ret'.task].CurrentState = "available"
    /\ UnfinishedIds(es, ret'.task, ret'.user) = {}
    /\ \A a \in DOMAIN es.assets :
          \/ HasAssignment(es, ret'.task, a, ret'.user)
          \/ \E P \in DOMAIN es.tasks[ret'.task].AssignmentCriteria :
                ~Asks(es.tasks[ret'.task], P, es.assets[a])

\* C15: an allocate for a worker with no unfinished assignment, when no eligible asset is
\* left for the worker, fails and writes no asset record and no assignment record (here
\* even when the index was fresh before the call).
NoWorkFails ==
    [][(Fresh(es) /\ NoWorkLeft)
       => (/\ ~ret'.ok
           /\ es'.assets = es.assets
           /\ es'.assignments = es.assignments)]_vars

\* the asset of a favorite step is among the stored favorites of its user
IsFavorite(store, u, a) == u \in DOMAIN store.users /\ a \in DOMAIN store.users[u].Favorites

\* C18: a favorite call returns favorited when the asset is not among the user's
\* favorites and unfavorited when it is; after it the asset is among the stored favorites
\* exactly when it returned favorited; and a call that directly follows a call for the
\* same user and asset returns the other Action.
FavoriteToggles ==
    [][(Called("favorite") /\ ret'.ok)
       => LET a == ret'.assets[1]
              u == ret'.user
          IN /\ ret'.action = IF IsFavorite(es, u, a) THEN "unfavorited" ELSE "favorited"
             /\ IsFavorite(es', u, a) <=> ret'.action = "favorited"
             /\ (ret.op = "favorite" /\ ret.ok /\ ret.user = u /\ ret.assets = ret'.assets)
                => ret'.action # ret.action]_vars

\* a user favorited an asset and then unfavorited it in the next call
ToggledBack ==
    /\ ret.op = "favorite" /\ ret.ok /\ ret.action = "unfavorited"
    /\ ~IsFavorite(es, ret.user, ret.assets[1])
    /\ nops >= 2

\* C19: every stored user has Counts[Favorites] equal to the number of its Favorites.
FavoritesCounted ==
    \A u \in DOMAIN es.users :
        CountOf(es.users[u].Counts, "Favorites") = Cardinality(DOMAIN es.users[u].Favorites)

\* an asset record without its Favorites counter
BesidesFavorites(asset) == [asset EXCEPT !.Counts = Without(@, "Favorites")]

\* C20: the asset record a favorite request stores differs from the record stored just
\* before that write only in Counts[Favorites], also when other requests were served
\* between its read and its write.
FavoriteOnlyCounts ==
    [][\A slot \in FavSlots :
          (/\ slot \in DOMAIN reqs /\ reqs[slot].pc = "read"
           /\ reqs'[slot].pc = "assetStored")
          => BesidesFavorites(es'.assets[reqs[slot].asset.Id])
                = BesidesFavorites(es.assets[reqs[slot].asset.Id])]_vars

\* the counters after are those before with Assignments and unfinished one higher
RaisedByOne(before, after) ==
    /\ CountOf(after, "Assignments") = CountOf(before, "Assignments") + 1
    /\ CountOf(after, "unfinished") = CountOf(before, "unfinished") + 1
    /\ \A k \in {"finished", "skipped", "Favorites"} : CountOf(after, k) = CountOf(before, k)

\* C27: an allocate that creates an assignment stores it unfinished with no SubmittedData,
\* and the stored asset and the asset embedded in the assignment have Counts[Assignments]
\* and Counts[unfinished] one higher than the asset stored before the call, finished,
\* skipped and Favorites as before.
AllocateRaisesByOne ==
    [][(Called("allocate") /\ ret'.created)
       => LET a == IdParts(ret'.id)[3]
              new == es'.assignments[ret'.id]
          IN /\ new.State = "unfinished"
             /\ new.SubmittedData = Null
             /\ RaisedByOne(es.assets[a].Counts, es'.assets[a].Counts)
             /\ RaisedByOne(es.assets[a].Counts, new.Asset.Counts)]_vars

\* this step submits, as finished or skipped, the one unfinished assignment the worker
\* has on the task
SubmitsOutstanding ==
    /\ Called("submit")
    /\ ret'.state \in {"finished", "skipped"}
    /\ UnfinishedIds(es, ret'.task, ret'.user) = {ret'.id}

\* C28: after the worker's outstanding assignment is submitted finished or skipped, the
\* allocation that follows never hands out the submitted assignment: it fails, or it gives
\* an unfinished assignment with no SubmittedData on another asset, and then the worker
\* has exactly one unfinished assignment on the task.
NextIsAnother ==
    [][SubmitsOutstanding
       => /\ ret'.next # ret'.id
          /\ ret'.ok
             => /\ es'.assignments[ret'.next].State = "unfinished"
                /\ es'.assignments[ret'.next].SubmittedData = Null
                /\ IdParts(ret'.next)[3] # IdParts(ret'.id)[3]
                /\ UnfinishedIds(es', ret'.task, ret'.user) = {ret'.next}]_vars

\* this step submits an unfinished assignment as finished or skipped, and the allocation
\* that follows does not give the worker the same asset again
SubmitsUnfinished ==
    /\ Called("submit")
    /\ ret'.state \in {"finished", "skipped"}
    /\ es.assignments[ret'.id].State = "unfinished"
    /\ ~(ret'.created /\ IdParts(ret'.next)[3] = IdParts(ret'.id)[3])

Answered(asset) == [SubmittedData |-> asset.SubmittedData, Verified |-> asset.Verified]

\* C29: only a sweep changes the SubmittedData and the Verified flag of a stored asset: no
\* other request, whatever it read before the sweep, writes the asset back with them
\* changed.
OnlySweepAnswers ==
    [][\A a \in DOMAIN es.assets :
          Answered(es'.assets[a]) # Answered(es.assets[a]) => Called("sweep")]_vars

\* the stored assignments on the asset, and those of them in the state
RecordsOn(store, a) == {id \in DOMAIN store.assignments : store.assignments[id].Asset.Id = a}
RecordsIn(store, a, st) == {id \in RecordsOn(store, a) : store.assignments[id].State = st}

\* C30: after the counters of an asset are computed again, its stored Counts hold, for
\* every state, the number of stored assignments on the asset in that state, and under
\* Assignments the number of all stored assignments on it.
CountsRecomputed ==
    [][(Called("counts") /\ ret'.ok)
       => \A i \in DOMAIN ret'.assets :
             LET a == ret'.assets[i]
                 counts == es'.assets[a].Counts
             IN /\ CountOf(counts, "Assignments") = Cardinality(RecordsOn(es', a))
                /\ \A st \in States : CountOf(counts, st) = Cardinality(RecordsIn(es', a, st))]_vars

\* C25: no stored task has a rule in its AssignmentCriteria that is not a mapping: a task
\* posted with such a rule is refused and not stored, so that the selection of an asset
\* never meets one.
OnlyMappingsStored ==
    \A t \in DOMAIN es.tasks : RulesAreMappings(es.tasks[t])

\* C24: when an allocation picks an asset and the write of the new assignment fails, the
\* stored asset has the Counts[Assignments] and Counts[unfinished] it had before the call.
FailedAllocateLeavesCounts ==
    [][((Called("allocate") \/ Called("assign")) /\ ret'.failed # {})
       => \A a \in ret'.failed :
             /\ CountOf(es'.assets[a].Counts, "Assignments") = CountOf(es.assets[a].Counts, "Assignments")
             /\ CountOf(es'.assets[a].Counts, "unfinished") = CountOf(es.assets[a].Counts, "unfinished")]_vars

\* the asset holds a winning answer of the swept task after the step
CompletedBy(a) ==
    \E v \in Winners(es, Swept, a) : Get(es'.assets[a].SubmittedData, Swept.Name) = v

\* C21: when a store call of a sweep fails on one asset, every other asset that has reached
\* consensus is still completed and returned, the assets returned are the ones completed,
\* and the failure is reported.
FailedSweepGoesOn ==
    [][(Called("sweep") /\ ret'.failed # {} /\ Fresh(es))
       => /\ \A a \in DOMAIN es.assets \ ret'.failed :
                Winners(es, Swept, a) # {} => CompletedBy(a) /\ a \in Range(ret'.assets)
          /\ ~ret'.ok]_vars

\* C23: whatever requests for other projects are served meanwhile, an assignment created by
\* an allocate request for a project has that project as its Project and as the first
\* component of its id.
AssignmentInItsProject ==
    \A slot \in DOMAIN reqs :
       reqs[slot].created
       => /\ es.assignments[reqs[slot].id].Project = Project
          /\ IdParts(reqs[slot].id)[1] = Project

\* C22: no two sweeps of the same task are at once between their read of the finished
\* assignments and their writes, and two sweeps of a task that overlap complete no asset
\* twice.
SweepsSerialized ==
    \A s1, s2 \in DOMAIN reqs :
       (s1 # s2 /\ reqs[s1].task = reqs[s2].task)
       => /\ ~(reqs[s1].pc = "read" /\ reqs[s2].pc = "read")
          /\ reqs[s1].overlapped => Range(reqs[s1].assets) \cap Range(reqs[s2].assets) = {}

\* Counts[Assignments] = Counts[finished] + Counts[skipped] + Counts[unfinished]
AddsUp(c) ==
    CountOf(c, "Assignments") = CountOf(c, "finished") + CountOf(c, "skipped") + CountOf(c, "unfinished")

\* C31: the counters of an asset add up after they are computed again, also when a sweep
\* has verified some of the asset's assignments (here with the index fresh before the call).
RecomputedCountsAddUp ==
    [][(Called("counts") /\ ret'.ok /\ Fresh(es))
       => \A i \in DOMAIN ret'.assets : AddsUp(es'.assets[ret'.assets[i]].Counts)]_vars

\* C32: a sweep of a task never replaces the answer an asset already holds for the task
\* by another one, also when workers finish their assignments on the asset after the
\* sweep that set it.
VerifiedAnswerStays ==
    [][Called("sweep")
       => \A a \in DOMAIN es.assets :
             LET old == Get(es.assets[a].SubmittedData, Swept.Name)
             IN old # Null => Get(es'.assets[a].SubmittedData, Swept.Name) = old]_vars

\* how often the asset is in the list a sweep returns
TimesIn(assets, a) == Cardinality({i \in DOMAIN assets : assets[i] = a})

\* C33: when two or more answers of an asset each reach Matching in one sweep, the sweep
\* returns the asset once, and the answer it stores is the same in whatever order the store
\* returns the assignments (here when the search sees the finished assignments that are
\* stored, and they are no more than a search returns).
SweepCompletesOnce ==
    \A t \in DOMAIN es.tasks : \A a \in DOMAIN es.assets :
       (/\ FinishedOn(es, Project, t, a) = Fin(es, t, a)
        /\ Cardinality(Winners(es, es.tasks[t], a)) >= 2
        /\ Cardinality(Fin(es, t, a)) <= DefaultSearchSize)
       => \A o1, o2 \in CompleteTask(es, Project, es.tasks[t].Name) :
             /\ TimesIn(o1.ret.assets, a) = 1
             /\ o1.es.assets[a].SubmittedData = o2.es.assets[a].SubmittedData

\* C34: when two allocate calls of two workers ran concurrently and both created an
\* assignment on the same asset, the stored asset counts both: starting from an asset
\* nobody was assigned, its Counts[Assignments] and Counts[unfinished] are two.
BothAllocationsCounted ==
    \A s1, s2 \in Slots :
        (/\ s1 # s2
         /\ s1 \in DOMAIN reqs /\ s2 \in DOMAIN reqs
         /\ reqs[s1].pc = "done" /\ reqs[s2].pc = "done"
         /\ reqs[s1].created /\ reqs[s2].created
         /\ reqs[s1].overlapped \/ reqs[s2].overlapped
         /\ reqs[s1].user # reqs[s2].user
         /\ IdParts(reqs[s1].id)[3] = IdParts(reqs[s2].id)[3])
        => LET c == es.assets[IdParts(reqs[s1].id)[3]].Counts
           IN CountOf(c, "Assignments") = 2 /\ CountOf(c, "unfinished") = 2

\* C35: as long as the workers' requests are served one after the other and no sweep runs,
\* every stored asset has, per state unfinished, skipped and finished, a counter equal to
\* the number of stored assignments on it in that state, and Counts[Assignments] equal to
\* the number of stored assignments on it.
CountsMatchRecords ==
    \A a \in DOMAIN es.assets :
        LET c == es.assets[a].Counts
        IN /\ CountOf(c, "Assignments") = Cardinality(RecordsOn(es, a))
           /\ \A st \in {"unfinished", "skipped", "finished"} :
                 CountOf(c, st) = Cardinality(RecordsIn(es, a, st))

\* the record is kept under the id composed from its own project, task, asset and user
KeptUnderOwnId(docs) ==
    \A id \in DOMAIN docs :
       /\ docs[id].Id = id
       /\ id = AssignmentId(docs[id].Project, docs[id].Task, docs[id].Asset.Id, docs[id].User)

FavoritedBy(store, a) == {u \in DOMAIN store.users : IsFavorite(store, u, a)}

\* C37: whatever favorite toggles, allocations, submits and recomputations of the counts
\* have been served one after the other, the Favorites counter of every stored asset is
\* the number of workers whose Favorites hold the asset
AssetFavoritesCounted ==
    \A a \in DOMAIN es.assets :
        CountOf(es.assets[a].Counts, "Favorites") = Cardinality(FavoritedBy(es, a))
\* asset a may be given to worker u on task t: it belongs to the project, satisfies every
\* entry of the task's AssignmentCriteria, and the worker has no assignment on it for the task
Selectable(store, t, u, a) ==
    /\ store.assets[a].Project = Project
    /\ \A P \in DOMAIN store.tasks[t].AssignmentCriteria :
          Asks(store.tasks[t], P, store.assets[a])
    /\ ~HasAssignment(store, t, a, u)

\* the assets an allocate of worker u on task t can choose in this store
Choices(store, t, u) ==
    {IdParts(o.ret.id)[3] : o \in {x \in CreateAssignment(store, Project, t, u) : x.ret.created}}

\* C38: when an allocate without a hint creates an assignment, the asset it chose belongs
\* to the project, satisfies the eligibility predicate and is not among the assets already
\* assigned to the worker on the task, and every asset with these three properties is one
\* the allocate can choose (here even when the index was fresh before the call).
ChoiceIsAnySelectable ==
    [][(Fresh(es) /\ Called("allocate") /\ ret'.created)
       => /\ Selectable(es, ret'.task, ret'.user, IdParts(ret'.id)[3])
          /\ \A a \in DOMAIN es.assets :
                Selectable(es, ret'.task, ret'.user, a) => a \in Choices(es, ret'.task, ret'.user)]_vars
\* the sum of the Counts of a list of trackers
RECURSIVE SumCounts(_)
SumCounts(sdt) == IF sdt = <<>> THEN 0 ELSE Head(sdt).Count + SumCounts(Tail(sdt))

\* the payloads folded so far, and every order they can be listed in
Folded == SubSeq(plan.items, 1, plan.folded)
Reorderings(items) == {[i \in DOMAIN items |-> items[q[i]]] : q \in Perms(DOMAIN items)}

\* C39: the trackers that folding a sequence of payloads through collateSubmittedData
\* gives have pairwise different Values, each Count is the number of payloads of the
\* sequence equal to the tracker's Value, the Counts add up to the length of the sequence,
\* and folding the same payloads in any other order gives the same set of trackers.
CollatePartitions ==
    LET sdt == plan.sdTrackers
    IN /\ \A i, j \in DOMAIN sdt : DeepEqual(sdt[i].Value, sdt[j].Value) => i = j
       /\ \A i \in DOMAIN sdt :
             sdt[i].Count = Cardinality({k \in DOMAIN Folded : DeepEqual(Folded[k], sdt[i].Value)})
       /\ SumCounts(sdt) = Len(Folded)
       /\ \A items \in Reorderings(Folded) : Range(Collate(<<>>, items)) = Range(sdt)

\* a sequence with a repeated payload and a different one has been folded whole
CollatedRepeats ==
    /\ plan.folded = Len(plan.items)
    /\ Len(plan.sdTrackers) >= 2
    /\ \E i \in DOMAIN plan.sdTrackers : plan.sdTrackers[i].Count >= 2
    /\ \E k \in DOMAIN plan.items : k > 1 /\ plan.items[k] # plan.items[1]
\* C40: for identifiers that do not contain the separator, the id joined from project,
\* task, asset and user splits on the separator into exactly these four identifiers (so
\* no two different quadruples are joined into the same id), and the third part, the one
\* the selector excludes, is the asset identifier.
IdSplitsBack ==
    plan.step = "split"
    => /\ plan.idParts = plan.parts
       /\ Len(plan.idParts) = 4
       /\ plan.idParts[3] = plan.parts[3]

\* an id was split whose task ends with the first letter of the separator and whose asset
\* is the rest of the separator
SplitBesideSeparatorPieces ==
    /\ plan.step = "split"
    /\ plan.parts[2] = <<"H">>
    /\ plan.parts[3] = <<"I", "V", "E">>

====
